---- MODULE Spec2Model ----
(***************************************************************************)
(* A model of dbquery.py (src/dbquery.py), the catalog query program of    *)
(* WeakLensingDeblending: one run of main(), from the opening of the       *)
(* output file to the return (or the uncaught exception) that ends it.     *)
(*                                                                         *)
(* Angles are whole degrees.  A database value is an optional number:      *)
(* None is the empty tuple and the number v is <<v>>.  A comma-joined      *)
(* string of column names is the sequence of the names, so that ','-join   *)
(* is concatenation and split(',') is the sequence itself.  A line of the  *)
(* output file is the sequence of its space-separated fields.              *)
(***************************************************************************)
EXTENDS Integers, Sequences, FiniteSets, TLC

VARIABLES
    pc,         \* position of main()
    args,       \* the parsed command line (line 36)
    fsWritable, \* environment: whether open(args.output, 'w') succeeds
    f,          \* the output file handle: "unbound", "open", "closed"
    file,       \* the file at args.output: [exists, lines]
    stdout,     \* the messages printed, in order
    columns,    \* the local 'columns' (lines 61-69)
    query,      \* the local 'query' (lines 81-83)
    clist,      \* the local 'clist' (line 88)
    engine,     \* the local 'engine': "unbound", "live", "disposed"
    session,    \* the local 'session': "unbound", "live", "closed"
    executed,   \* number of queries sent to the database
    fetched,    \* the result set as fetchall() returned it (line 105)
    results,    \* the local 'results', whose rows the loop updates in place
    idx,        \* 1-based position of the row loop (line 108)
    nulls,      \* the local 'nulls' (line 91)
    clipCount,  \* the local 'clipCount' (line 92)
    nrows,      \* the local 'nrows' (line 107)
    exc,        \* the exception raised inside the try block, "none" if none
    raised,     \* the exception that leaves main(), "none" if none
    ret         \* the value main() returned

vars == <<pc, args, fsWritable, f, file, stdout, columns, query, clist, engine,
          session, executed, fetched, results, idx, nulls, clipCount, nrows,
          exc, raised, ret>>

----------------------------------------------------------------------------
(* Bounds and input sets *)

MaxRows == 2

RaBounds == {-5, 5, 180}
DecBounds == {0, 1}
NullSubs == {-7, 0}

None == <<>>
Some(v) == <<v>>

StaleLine == <<"stale">>

----------------------------------------------------------------------------
(* The column builder, lines 53-69.  A pattern 'x%sy' is the pair <<x, y>> *)

\* p % t
Fmt(p, t) == p[1] \o t \o p[2]

\* addColumns with the two loops exchanged: the types outside, the patterns
\* inside
addColumns_TypesOuter(patterns, types) ==
    [k \in 1..(Len(patterns) * Len(types)) |->
        Fmt(patterns[((k - 1) % Len(patterns)) + 1],
            types[((k - 1) \div Len(patterns)) + 1])]

\* lines 53-57: for each pattern, the pattern applied to each type
addColumns(patterns, types) ==
    [k \in 1..(Len(patterns) * Len(types)) |->
        Fmt(patterns[((k - 1) \div Len(types)) + 1],
            types[((k - 1) % Len(types)) + 1])]

BuildColumns ==
    <<"galtileid", "ra", "dec", "redshift">>
    \o addColumns(<< <<"fluxnorm_", "">> >>, <<"bulge", "disk", "agn">>)
    \o addColumns(<< <<"a_", "">>, <<"b_", "">> >>, <<"b", "d">>)
    \o addColumns(<< <<"pa_", "">> >>, <<"bulge", "disk">>)
    \o addColumns(<< <<"", "_ab">> >>, <<"u", "g", "r", "i", "z", "y">>)

Range(s) == {s[i] : i \in DOMAIN s}

----------------------------------------------------------------------------
(* The rows the stored procedure may return.  Every row is keyed by the   *)
(* requested columns; a value is None (SQL NULL) or a number.             *)

MkRow(ra, dec, nullCols) ==
    [c \in Range(BuildColumns) |->
        IF c = "ra" THEN ra
        ELSE IF c = "dec" THEN dec
        ELSE IF c \in nullCols THEN None ELSE Some(1)]

Rows ==
    {MkRow(Some(ra), Some(0), {}) : ra \in {5, 6, 180, 182, 355}}
    \cup {MkRow(Some(5), Some(dec), {}) : dec \in {-1, 1, 2}}
    \cup {MkRow(None, Some(0), {}),
          MkRow(Some(5), None, {}),
          MkRow(None, None, {"redshift"})}
    \cup {MkRow(Some(5), Some(0), {"redshift"}),
          MkRow(Some(6), Some(0), {"redshift", "y_ab"}),
          MkRow(Some(5), Some(0), {"galtileid"})}

ResultSets == UNION {[1..n -> Rows] : n \in 0..MaxRows}

----------------------------------------------------------------------------
(* Helpers of main() *)

\* line 45
OpenFailStatus == Some(-2)

\* line 51
InvalidWindowStatus == Some(-2)

\* line 49
InvalidWindow(a) == a.ra_min >= a.ra_max \/ a.dec_min >= a.dec_max

\* line 48
Window(a) == [RAmin |-> a.ra_min, RAmax |-> a.ra_max,
              DECmin |-> a.dec_min, DECmax |-> a.dec_max]

\* line 77: columns.replace('galtileid,', '')
RECURSIVE ReplaceName(_, _)
ReplaceName(cols, name) ==
    IF cols = <<>> THEN <<>>
    ELSE IF Head(cols) = name /\ Len(cols) > 1
         THEN ReplaceName(Tail(cols), name)
         ELSE <<Head(cols)>> \o ReplaceName(Tail(cols), name)

\* lines 72, 81-83.  The midpoints are kept doubled and the radius squared,
\* so that they stay whole numbers.
BuildQueryText(a, cols) ==
    [proc |-> "GalaxySearchSpecColsConstraint2013",
     RaSearchX2 |-> a.ra_min + a.ra_max,
     DecSearchX2 |-> a.dec_min + a.dec_max,
     apertureRadiusSq |-> 900 * ((a.ra_max - a.ra_min) * (a.ra_max - a.ra_min)
                          + (a.dec_max - a.dec_min) * (a.dec_max - a.dec_min)),
     ColumnNames |-> ReplaceName(cols, "galtileid"),
     WhereClause |-> ""]

\* Bump with the increment lost once the entry exists
Bump_NoAccumulate(nl, col) ==
    [x \in DOMAIN nl \cup {col} |-> IF x = col THEN 1 ELSE nl[x]]

\* lines 112-114
Bump(nl, col) ==
    LET n0 == IF col \in DOMAIN nl THEN nl
              ELSE [x \in DOMAIN nl \cup {col} |-> IF x = col THEN 0 ELSE nl[x]]
    IN  [n0 EXCEPT ![col] = @ + 1]

\* lines 110-115: the NULL filter over the columns of one row
RECURSIVE SanitizeCols(_, _, _, _, _)
SanitizeCols(row, nl, cl, i, sub) ==
    IF i > Len(cl) THEN [row |-> row, nulls |-> nl]
    ELSE IF row[cl[i]] = None
         THEN SanitizeCols([row EXCEPT ![cl[i]] = Some(sub)], Bump(nl, cl[i]),
                           cl, i + 1, sub)
         ELSE SanitizeCols(row, nl, cl, i + 1, sub)

\* lines 117-119
Recenter(ra) == IF ra > 180 THEN ra - 360 ELSE ra

\* Outside with the window edges excluded
Outside_Strict(ra, dec, a) ==
    ra <= a.ra_min \/ ra >= a.ra_max \/ dec <= a.dec_min \/ dec >= a.dec_max

\* line 121
Outside(ra, dec, a) ==
    ra < a.ra_min \/ ra > a.ra_max \/ dec < a.dec_min \/ dec > a.dec_max

\* str(row[col]) of line 125: a number is written as itself
Str(v) == v[1]

\* line 125
RowLine(row, cl) == [i \in 1..Len(cl) |-> Str(row[cl[i]])]

----------------------------------------------------------------------------
(* The state after argument parsing, lines 20-36.  A local that is not    *)
(* bound yet holds "unbound", the empty sequence or zero; none is read     *)
(* before main() assigns it, except 'session' in the finally block.        *)

Init ==
    /\ pc = "open"
    /\ args \in [ra_min : RaBounds, ra_max : RaBounds,
                 dec_min : DecBounds, dec_max : DecBounds,
                 null_sub : NullSubs, verbose : BOOLEAN]
    /\ fsWritable \in BOOLEAN
    /\ f = "unbound"
    /\ file \in {[exists |-> FALSE, lines |-> <<>>],
                 [exists |-> TRUE, lines |-> <<StaleLine>>]}
    /\ stdout = <<>>
    /\ columns = <<>>
    /\ query = <<>>
    /\ clist = <<>>
    /\ engine = "unbound"
    /\ session = "unbound"
    /\ executed = 0
    /\ fetched = <<>>
    /\ results = <<>>
    /\ idx = 0
    /\ nulls = [c \in {} |-> 0]
    /\ clipCount = 0
    /\ nrows = 0
    /\ exc = "none"
    /\ raised = "none"
    /\ ret = None

----------------------------------------------------------------------------
(* main(), one action per step *)

\* OpenOutput with the return of line 45 lost: the failure is printed and
\* main() goes on
OpenOutput_NoReturn ==
    /\ pc = "open"
    /\ IF fsWritable
       THEN /\ f' = "open"
            /\ file' = [exists |-> TRUE, lines |-> <<>>]
            /\ UNCHANGED stdout
       ELSE /\ stdout' = stdout \o << <<"Cannot open output">>, <<"IOError">> >>
            /\ UNCHANGED <<f, file>>
    /\ pc' = "window"
    /\ UNCHANGED <<args, fsWritable, columns, query, clist, engine, session,
                   executed, fetched, results, idx, nulls, clipCount, nrows,
                   exc, raised, ret>>

\* lines 38-45: open(args.output, 'w') creates or truncates the file
OpenOutput ==
    /\ pc = "open"
    /\ IF fsWritable
       THEN /\ f' = "open"
            /\ file' = [exists |-> TRUE, lines |-> <<>>]
            /\ pc' = "window"
            /\ UNCHANGED <<stdout, ret>>
       ELSE /\ stdout' = stdout \o << <<"Cannot open output">>, <<"IOError">> >>
            /\ ret' = OpenFailStatus
            /\ pc' = "done"
            /\ UNCHANGED <<f, file>>
    /\ UNCHANGED <<args, fsWritable, columns, query, clist, engine, session,
                   executed, fetched, results, idx, nulls, clipCount, nrows,
                   exc, raised>>

\* lines 47-51
ValidateWindow ==
    /\ pc = "window"
    /\ IF InvalidWindow(args)
       THEN /\ stdout' = Append(stdout, <<"Invalid RA-DEC window", Window(args)>>)
            /\ ret' = InvalidWindowStatus
            /\ pc' = "done"
       ELSE /\ pc' = "build"
            /\ UNCHANGED <<stdout, ret>>
    /\ UNCHANGED <<args, fsWritable, f, file, columns, query, clist, engine,
                   session, executed, fetched, results, idx, nulls, clipCount,
                   nrows, exc, raised>>

\* lines 53-86
BuildQuery ==
    /\ pc = "build"
    /\ columns' = BuildColumns
    /\ query' = <<BuildQueryText(args, BuildColumns)>>
    /\ stdout' = IF args.verbose
                 THEN Append(stdout, <<"using query", BuildQueryText(args, BuildColumns)>>)
                 ELSE stdout
    /\ pc' = "header"
    /\ UNCHANGED <<args, fsWritable, f, file, clist, engine, session, executed,
                   fetched, results, idx, nulls, clipCount, nrows, exc, raised,
                   ret>>

\* lines 88-92
WriteHeader ==
    /\ pc = "header"
    /\ clist' = columns
    /\ file' = [file EXCEPT !.lines = Append(@, columns)]
    /\ nulls' = [c \in {} |-> 0]
    /\ clipCount' = 0
    /\ pc' = "engine"
    /\ UNCHANGED <<args, fsWritable, f, stdout, columns, query, engine, session,
                   executed, fetched, results, idx, nrows, exc, raised, ret>>

\* lines 93-101: url.URL(...) and create_engine(dbUrl) return or raise
CreateEngine ==
    /\ pc = "engine"
    /\ \/ /\ engine' = "live"
          /\ pc' = "session"
          /\ exc' = exc
       \/ /\ exc' = "SetupError"
          /\ pc' = "finally"
          /\ engine' = engine
    /\ UNCHANGED <<args, fsWritable, f, file, stdout, columns, query, clist,
                   session, executed, fetched, results, idx, nulls, clipCount,
                   nrows, raised, ret>>

\* line 102: scoped_session(sessionmaker(...)) returns or raises
CreateSession ==
    /\ pc = "session"
    /\ \/ /\ session' = "live"
          /\ pc' = "metadata"
          /\ exc' = exc
       \/ /\ exc' = "SetupError"
          /\ pc' = "finally"
          /\ session' = session
    /\ UNCHANGED <<args, fsWritable, f, file, stdout, columns, query, clist,
                   engine, executed, fetched, results, idx, nulls, clipCount,
                   nrows, raised, ret>>

\* line 103: MetaData(bind=engine) returns or raises
CreateMetaData ==
    /\ pc = "metadata"
    /\ \/ /\ pc' = "execute"
          /\ exc' = exc
       \/ /\ exc' = "SetupError"
          /\ pc' = "finally"
    /\ UNCHANGED <<args, fsWritable, f, file, stdout, columns, query, clist,
                   engine, session, executed, fetched, results, idx, nulls,
                   clipCount, nrows, raised, ret>>

\* lines 105-107: session.execute(query).fetchall() returns the rows or raises
Execute ==
    /\ pc = "execute"
    /\ executed' = executed + 1
    /\ \/ \E rs \in ResultSets :
             /\ fetched' = rs
             /\ results' = rs
             /\ nrows' = 0
             /\ idx' = 1
             /\ pc' = "loop"
             /\ exc' = exc
       \/ /\ exc' = "QueryError"
          /\ pc' = "finally"
          /\ UNCHANGED <<fetched, results, nrows, idx>>
    /\ UNCHANGED <<args, fsWritable, f, file, stdout, columns, query, clist,
                   engine, session, nulls, clipCount, raised, ret>>

\* ProcessRow with the 'continue' of line 123 lost: a clipped row is
\* counted and written too
ProcessRow_NoContinue ==
    /\ pc = "loop"
    /\ idx <= Len(results)
    /\ LET s == SanitizeCols(results[idx], nulls, clist, 1, args.null_sub)
           ra == Recenter(s.row["ra"][1])
           dec == s.row["dec"][1]
       IN  /\ results' = [results EXCEPT ![idx] = s.row]
           /\ nulls' = s.nulls
           /\ clipCount' = IF Outside(ra, dec, args) THEN clipCount + 1 ELSE clipCount
           /\ file' = [file EXCEPT !.lines = Append(@, RowLine(s.row, clist))]
           /\ nrows' = nrows + 1
    /\ idx' = idx + 1
    /\ UNCHANGED <<pc, args, fsWritable, f, stdout, columns, query, clist,
                   engine, session, executed, fetched, exc, raised, ret>>

\* ProcessRow with the window test ahead of the NULL filter: a row with a
\* NULL coordinate is clipped, and a clipped row is not filtered
ProcessRow_FilterFirst ==
    /\ pc = "loop"
    /\ idx <= Len(results)
    /\ LET row == results[idx]
           s == SanitizeCols(row, nulls, clist, 1, args.null_sub)
       IN  IF \/ row["ra"] = None
              \/ row["dec"] = None
              \/ Outside(Recenter(row["ra"][1]), row["dec"][1], args)
           THEN /\ clipCount' = clipCount + 1
                /\ UNCHANGED <<file, nrows, results, nulls>>
           ELSE /\ results' = [results EXCEPT ![idx] = s.row]
                /\ nulls' = s.nulls
                /\ file' = [file EXCEPT !.lines = Append(@, RowLine(s.row, clist))]
                /\ nrows' = nrows + 1
                /\ clipCount' = clipCount
    /\ idx' = idx + 1
    /\ UNCHANGED <<pc, args, fsWritable, f, stdout, columns, query, clist,
                   engine, session, executed, fetched, exc, raised, ret>>

\* lines 108-126: the body of the row loop, for the row at idx
ProcessRow ==
    /\ pc = "loop"
    /\ idx <= Len(results)
    /\ LET s == SanitizeCols(results[idx], nulls, clist, 1, args.null_sub)
           ra == Recenter(s.row["ra"][1])
           dec == s.row["dec"][1]
       IN  /\ results' = [results EXCEPT ![idx] = s.row]
           /\ nulls' = s.nulls
           /\ IF Outside(ra, dec, args)
              THEN /\ clipCount' = clipCount + 1
                   /\ UNCHANGED <<file, nrows>>
              ELSE /\ file' = [file EXCEPT !.lines = Append(@, RowLine(s.row, clist))]
                   /\ nrows' = nrows + 1
                   /\ clipCount' = clipCount
    /\ idx' = idx + 1
    /\ UNCHANGED <<pc, args, fsWritable, f, stdout, columns, query, clist,
                   engine, session, executed, fetched, exc, raised, ret>>

\* lines 127-133: the loop is exhausted
Summarize ==
    /\ pc = "loop"
    /\ idx > Len(results)
    /\ stdout' = IF args.verbose
                 THEN stdout
                      \o << <<"Dumped", nrows>> >>
                      \o (IF DOMAIN nulls # {}
                          THEN << <<"Replaced NULLs with", args.null_sub, nulls>> >>
                          ELSE <<>>)
                      \o << <<"clipped", clipCount>> >>
                 ELSE stdout
    /\ pc' = "finally"
    /\ UNCHANGED <<args, fsWritable, f, file, columns, query, clist, engine,
                   session, executed, fetched, results, idx, nulls, clipCount,
                   nrows, exc, raised, ret>>

\* lines 135-137: session.close() reads the local 'session', which is
\* unbound when line 102 was not completed; the error that raises then
\* replaces the pending one and engine.dispose() is not reached
Finally ==
    /\ pc = "finally"
    /\ IF session = "unbound"
       THEN /\ raised' = "UnboundLocalError"
            /\ pc' = "done"
            /\ UNCHANGED <<session, engine>>
       ELSE /\ session' = "closed"
            /\ engine' = "disposed"
            /\ raised' = exc
            /\ pc' = IF exc = "none" THEN "close" ELSE "done"
    /\ UNCHANGED <<args, fsWritable, f, file, stdout, columns, query, clist,
                   executed, fetched, results, idx, nulls, clipCount, nrows,
                   exc, ret>>

\* line 139, and the return of None at the end of main()
CloseOutput ==
    /\ pc = "close"
    /\ f' = "closed"
    /\ ret' = None
    /\ pc' = "done"
    /\ UNCHANGED <<args, fsWritable, file, stdout, columns, query, clist,
                   engine, session, executed, fetched, results, idx, nulls,
                   clipCount, nrows, exc, raised>>

Next ==
    \/ OpenOutput
    \/ ValidateWindow
    \/ BuildQuery
    \/ WriteHeader
    \/ CreateEngine
    \/ CreateSession
    \/ CreateMetaData
    \/ Execute
    \/ ProcessRow
    \/ Summarize
    \/ Finally
    \/ CloseOutput

Spec == Init /\ [][Next]_vars

----------------------------------------------------------------------------
(* Vocabulary of the properties *)

Reported(msg) == \E i \in DOMAIN stdout : stdout[i][1] = msg

NoDatabaseAccess ==
    engine = "unbound" /\ session = "unbound" /\ executed = 0

\* the file at the output path is as it was before the run
FileUntouched ==
    f = "unbound" /\ (~file.exists \/ file.lines = <<StaleLine>>)

NonZero(r) == r # None /\ r # Some(0)

\* a return of None ends the process with status zero
Success(r) == r = None \/ r = Some(0)

ExpectedHeader ==
    <<"galtileid", "ra", "dec", "redshift", "fluxnorm_bulge", "fluxnorm_disk",
      "fluxnorm_agn", "a_b_b", "a_b_d", "b_b_b", "b_b_d", "pa_bulge",
      "pa_disk", "u_ab", "g_ab", "r_ab", "i_ab", "z_ab", "y_ab">>

CodeHeader ==
    <<"galtileid", "ra", "dec", "redshift", "fluxnorm_bulge", "fluxnorm_disk",
      "fluxnorm_agn", "a_b", "a_d", "b_b", "b_d", "pa_bulge", "pa_disk",
      "u_ab", "g_ab", "r_ab", "i_ab", "z_ab", "y_ab">>

\* main() has entered the try block of line 93
EnteredTry == clist # <<>>

\* the row loop is at, or past, its first row
InLoop == idx >= 1

\* the value of column c of a row once NULL is replaced by the null-sub value
Value(row, c) == IF row[c] = None THEN args.null_sub ELSE row[c][1]

\* the recentered right ascension of a row
RaPrime(row) ==
    IF Value(row, "ra") > 180 THEN Value(row, "ra") - 360 ELSE Value(row, "ra")

\* the row lies outside the requested window
OutOfWindow(row) ==
    \/ RaPrime(row) < args.ra_min
    \/ RaPrime(row) > args.ra_max
    \/ Value(row, "dec") < args.dec_min
    \/ Value(row, "dec") > args.dec_max

\* the line of a row: its values in column-list order
LineOf(row) == [i \in 1..Len(clist) |-> Value(row, clist[i])]

\* the NullCounters entry of column c, zero when there is none
CountOf(nl, c) == IF c \in DOMAIN nl THEN nl[c] ELSE 0

\* the lines of the retained rows among the first k rows fetched, in order
RECURSIVE KeptLines(_)
KeptLines(k) ==
    IF k = 0 THEN <<>>
    ELSE IF OutOfWindow(fetched[k]) THEN KeptLines(k - 1)
         ELSE Append(KeptLines(k - 1), LineOf(fetched[k]))

\* this step is one pass of the loop body over the row at idx
RowStep == pc = "loop" /\ idx <= Len(results)

----------------------------------------------------------------------------
(* The properties *)

\* C1: a run with an invalid window (ra_min >= ra_max or dec_min >= dec_max)
\* reports the invalid-window error and ends without any database access
\* and without the output file having been created, truncated or written.
C1_InvalidWindowNoAccessNoWrite ==
    InvalidWindow(args) =>
        /\ NoDatabaseAccess
        /\ FileUntouched
        /\ (pc = "done" => Reported("Invalid RA-DEC window"))

\* C2: when the output cannot be opened, main reports it and returns a
\* non-zero status at once: no query is built, no engine or session is
\* created and nothing is executed.
C2_OpenFailureNoQuery ==
    (~fsWritable /\ pc # "open") =>
        /\ pc = "done"
        /\ Reported("Cannot open output")
        /\ raised = "none"
        /\ NonZero(ret)
        /\ query = <<>>
        /\ NoDatabaseAccess

C2_Witness ==
    ~fsWritable /\ pc = "done" /\ Reported("Cannot open output")

\* C3: the returned status tells the outcomes apart: non-zero for an
\* output-open failure, a different non-zero value for an invalid window,
\* and success for every run that passes both checks and completes.
C3_DistinctStatus ==
    (pc = "done" /\ raised = "none") =>
        /\ Reported("Cannot open output") => NonZero(ret)
        /\ Reported("Invalid RA-DEC window") =>
               NonZero(ret) /\ ret # OpenFailStatus
        /\ (~Reported("Cannot open output") /\ ~Reported("Invalid RA-DEC window"))
               => Success(ret)

\* C4, as claimed, for the runs that get as far as the query: the output
\* file begins with exactly one header line, in the file before the query
\* is executed and whatever the rows, whose names are galtileid ra dec
\* redshift fluxnorm_bulge fluxnorm_disk fluxnorm_agn a_b_b a_b_d b_b_b
\* b_b_d pa_bulge pa_disk u_ab g_ab r_ab i_ab z_ab y_ab.
C4_HeaderAsClaimed ==
    (executed > 0 \/ (pc = "done" /\ f = "closed")) =>
        /\ Len(file.lines) = 1 + nrows
        /\ file.lines[1] = ExpectedHeader

\* C4, amended: every output file the program creates is empty (the run
\* stopped at the window check) or begins with exactly one header line,
\* in the file before the query is executed and whatever the rows, whose
\* names are galtileid ra dec redshift fluxnorm_bulge fluxnorm_disk
\* fluxnorm_agn a_b a_d b_b b_d pa_bulge pa_disk u_ab g_ab r_ab i_ab z_ab
\* y_ab.
C4_HeaderOfTheCode ==
    (executed > 0 \/ (pc = "done" /\ f # "unbound")) =>
        \/ InvalidWindow(args) /\ executed = 0 /\ file.lines = <<>>
        \/ /\ Len(file.lines) = 1 + nrows
           /\ file.lines[1] = CodeHeader

C4_Witness ==
    /\ pc = "done"
    /\ f = "closed"
    /\ Len(fetched) = 2
    /\ clipCount = 2
    /\ file.lines = <<CodeHeader>>

\* C5: a pass of the loop body discards the row (ClipCounter plus one, file
\* unchanged) exactly when its recentered ra or its dec is strictly outside
\* the window; otherwise it appends one line, the row's values in
\* column-list order, and leaves ClipCounter unchanged.
C5_ClipIffOutside ==
    [][RowStep =>
          IF OutOfWindow(results[idx])
          THEN clipCount' = clipCount + 1 /\ file' = file
          ELSE /\ clipCount' = clipCount
               /\ file' = [exists |-> file.exists,
                           lines |-> Append(file.lines, LineOf(results[idx]))]
      ]_vars

C5_Witness ==
    /\ pc = "done"
    /\ args.ra_min = -5 /\ args.ra_max = 180
    /\ fetched = <<MkRow(Some(180), Some(0), {}), MkRow(Some(182), Some(0), {})>>
    /\ nrows = 1
    /\ clipCount = 1

\* C6: in the rows processed so far every NULL is replaced by the null-sub
\* value and every other value is left alone, and NullCounters[c] is the
\* number of those rows whose value for c was NULL, with no entry for a
\* column that had none.
C6_NullCounters ==
    InLoop =>
        /\ DOMAIN nulls \subseteq Range(clist)
        /\ \A c \in Range(clist) :
              LET n == Cardinality({i \in 1..(idx - 1) : fetched[i][c] = None})
              IN  /\ (n = 0) <=> (c \notin DOMAIN nulls)
                  /\ CountOf(nulls, c) = n
                  /\ \A i \in 1..(idx - 1) :
                        results[i][c] = IF fetched[i][c] = None
                                        THEN Some(args.null_sub)
                                        ELSE fetched[i][c]

C6_Witness ==
    /\ pc = "done"
    /\ Len(fetched) = 2
    /\ fetched[1]["redshift"] = None
    /\ fetched[2]["redshift"] = None
    /\ nulls["redshift"] = 2
    /\ "y_ab" \in DOMAIN nulls
    /\ "galtileid" \notin DOMAIN nulls

\* C7: a run that entered the try block ends with the session and the
\* engine released, and a failure that leaves main is the error raised in
\* the try block, not one raised by the cleanup.
C7_CleanupReleases ==
    (pc = "done" /\ EnteredTry) =>
        /\ session # "live"
        /\ engine # "live"
        /\ raised = exc

\* C8: no run ends with the output file handle opened and not closed.
C8_FileClosed ==
    pc = "done" => f \in {"unbound", "closed"}

\* C9: rows written plus rows clipped is the number of rows processed, the
\* whole result set once the loop is over; the file holds 1 + nrows lines
\* and its data lines are the retained rows in result order.
C9_RowConservation ==
    InLoop =>
        /\ nrows + clipCount = idx - 1
        /\ (pc # "loop" => idx - 1 = Len(fetched))
        /\ Len(file.lines) = 1 + nrows
        /\ SubSeq(file.lines, 2, Len(file.lines)) = KeptLines(idx - 1)

C9_Witness ==
    /\ pc = "done"
    /\ Len(fetched) = 2
    /\ nrows = 1
    /\ clipCount = 1
    /\ OutOfWindow(fetched[1])

\* C10: the NULL filter runs before the window test: a row whose ra or dec
\* is NULL is judged, and written, with the null-sub value in its place,
\* and the NULLs of a row that is clipped are counted all the same.
C10_SanitizeBeforeFilter ==
    [][RowStep =>
          LET row == results[idx]
              inside == ~OutOfWindow(row)
          IN  /\ (row["ra"] = None \/ row["dec"] = None) =>
                    IF inside
                    THEN /\ nrows' = nrows + 1
                         /\ clipCount' = clipCount
                         /\ file'.lines[Len(file'.lines)] = LineOf(row)
                    ELSE clipCount' = clipCount + 1 /\ nrows' = nrows
              /\ clipCount' = clipCount + 1 =>
                    \A c \in Range(clist) :
                        row[c] = None => CountOf(nulls', c) = CountOf(nulls, c) + 1
      ]_vars

C10_Witness ==
    /\ pc = "done"
    /\ args.null_sub = 0
    /\ fetched = <<MkRow(None, Some(0), {}), MkRow(Some(6), Some(0), {"redshift", "y_ab"})>>
    /\ nrows = 1
    /\ clipCount = 1
    /\ file.lines[2][2] = 0
    /\ nulls["redshift"] = 1

====
